---------------------------- MODULE Spec2Model ----------------------------
(***************************************************************************)
(* Coordinate inference and normalisation pipeline of latentomalta:       *)
(* cleanAndParse, processPoints, identifyColumns and the App state        *)
(* (handleFetch, updateMapping, swapMapping, handleApplyStyle, the filter  *)
(* bar), with the marker colours and the cluster numbers of MapDisplay.    *)
(*                                                                         *)
(* The repository holds two revisions of App.tsx (src/unnamed/part_000     *)
(* lines 1-412 and 413-915) and three revisions of geminiService.ts        *)
(* (src/services/geminiService.ts lines 1-59 and 61-129,                   *)
(* src/unnamed/part_002).  appVariant and oracleVariant say which revision *)
(* a behaviour runs.                                                       *)
(*                                                                         *)
(* Strings are sequences of one-character strings.  A JavaScript number is *)
(* an exact decimal [kind, neg, ip, frac]: sign, integer part and the      *)
(* fraction digits without trailing zeros (so -0 is kept apart from 0, as  *)
(* in JavaScript, and compares equal to it).  Within the token lengths     *)
(* used here every decimal is far from the limits of a double.            *)
(***************************************************************************)
EXTENDS Integers, Sequences, FiniteSets

VARIABLES
    appVariant,      \* 1: App.tsx as in part_000 lines 1-412, 2: lines 413-915
    oracleVariant,   \* 1: geminiService.ts 1-59, 2: part_002, 3: geminiService.ts 61-129
    isLoading,       \* AppState.isLoading
    error,           \* AppState.error
    sheetData,       \* AppState.sheetData
    headers,         \* AppState.headers
    mapping,         \* AppState.mapping
    points,          \* AppState.points
    hasApiKey,       \* hasApiKey (App revision 2): "null", "true" or "false"
    inflight,        \* number of handleFetch calls waiting at an await
    loadEffect,      \* the effect that calls handleFetch is due to run
    styleConfig,     \* AppState.styleConfig
    selectedPoint,   \* selectedPoint: the point whose marker was clicked, or null
    selectedFilters, \* selectedFilters: the category values switched on
    filterColumn,    \* filterColumn: the header the filter reads, or null
    fnIn,            \* argument of the pure function under check
    fnOut,           \* its result
    fnPc             \* "idle" | "ready" | "done"

vars == <<appVariant, oracleVariant, isLoading, error, sheetData, headers,
          mapping, points, hasApiKey, inflight, loadEffect, styleConfig,
          selectedPoint, selectedFilters, filterColumn, fnIn, fnOut, fnPc>>

\* the state of the filter bar and of the selection
viewVars == <<selectedPoint, selectedFilters, filterColumn>>

appVars == <<isLoading, error, sheetData, headers, mapping, points,
             hasApiKey, inflight, loadEffect, styleConfig, viewVars>>

-----------------------------------------------------------------------------
(* Bounds *)

MaxLen == 4
MaxRows == 2
MaxHeaders == 2
MaxStyleRows == 12
MaxCluster == 3

-----------------------------------------------------------------------------
(* JavaScript values *)

Null == [kind |-> "null"]
Undefined == [kind |-> "undefined"]
NaN == [kind |-> "nan"]

Num(neg, ip, frac) == [kind |-> "num", neg |-> neg, ip |-> ip, frac |-> frac]

Str(s) == [kind |-> "str", s |-> s]

\* err.message as kept in AppState.error
Message(m) == [kind |-> "message", text |-> m]

Zero == Num(FALSE, 0, <<>>)

IsZero(a) == a.ip = 0 /\ a.frac = <<>>

FracDigit(f, j) == IF j <= Len(f) THEN f[j] ELSE 0

FracLT(f, g) ==
    \E i \in 1..Len(g) :
        /\ \A j \in 1..(i - 1) : FracDigit(f, j) = g[j]
        /\ FracDigit(f, i) < g[i]

MagLT(a, b) == a.ip < b.ip \/ (a.ip = b.ip /\ FracLT(a.frac, b.frac))

SignedNeg(a) == a.neg /\ ~IsZero(a)

\* a < b on numbers
NumLT(a, b) ==
    IF SignedNeg(a)
    THEN ~SignedNeg(b) \/ MagLT(b, a)
    ELSE ~SignedNeg(b) /\ MagLT(a, b)

\* a <= b and a >= b on numbers
NumLE(a, b) == ~NumLT(b, a)
NumGE(a, b) == ~NumLT(a, b)

\* a === b on numbers (-0 === 0)
NumEq(a, b) == ~NumLT(a, b) /\ ~NumLT(b, a)

\* Math.abs(n) and -Math.abs(n)
Abs(n) == [n EXCEPT !.neg = FALSE]
NegAbs(n) == [n EXCEPT !.neg = TRUE]

-----------------------------------------------------------------------------
(* Strings *)

LowerLetters == <<"a","b","c","d","e","f","g","h","i","j","k","l","m",
                  "n","o","p","q","r","s","t","u","v","w","x","y","z">>
UpperLetters == <<"A","B","C","D","E","F","G","H","I","J","K","L","M",
                  "N","O","P","Q","R","S","T","U","V","W","X","Y","Z">>
DigitChars == <<"0","1","2","3","4","5","6","7","8","9">>

Range(f) == {f[i] : i \in DOMAIN f}

DigitSet == Range(DigitChars)
LowerSet == Range(LowerLetters)
UpperSet == Range(UpperLetters)

IsDigit(c) == c \in DigitSet
DigitVal(c) == (CHOOSE i \in 1..10 : DigitChars[i] = c) - 1

\* \s of a regular expression, and the white space trim() removes
IsSpace(c) == c \in {" ", "\t", "\n", "\r"}

UpperChar(c) ==
    IF c \in LowerSet
    THEN UpperLetters[CHOOSE i \in 1..26 : LowerLetters[i] = c]
    ELSE c

LowerChar(c) ==
    IF c \in UpperSet
    THEN LowerLetters[CHOOSE i \in 1..26 : UpperLetters[i] = c]
    ELSE c

ToUpperCase(s) == [i \in 1..Len(s) |-> UpperChar(s[i])]
ToLowerCase(s) == [i \in 1..Len(s) |-> LowerChar(s[i])]

RECURSIVE TrimStart(_)
TrimStart(s) ==
    IF s # <<>> /\ IsSpace(Head(s)) THEN TrimStart(Tail(s)) ELSE s

RECURSIVE TrimEnd(_)
TrimEnd(s) ==
    IF s # <<>> /\ IsSpace(s[Len(s)])
    THEN TrimEnd(SubSeq(s, 1, Len(s) - 1))
    ELSE s

Trim(s) == TrimEnd(TrimStart(s))

\* s.includes(sub)
Includes(s, sub) ==
    \E i \in 0..(Len(s) - Len(sub)) : SubSeq(s, i + 1, i + Len(sub)) = sub

\* s.startsWith(sub)
StartsWith(s, sub) == Len(s) >= Len(sub) /\ SubSeq(s, 1, Len(sub)) = sub

\* (s.match(/c/g) || []).length
CountChar(s, c) == Cardinality({i \in 1..Len(s) : s[i] = c})

\* s.replace(c, d) with string arguments: the first occurrence only
ReplaceFirst(s, c, d) ==
    IF \E i \in 1..Len(s) : s[i] = c
    THEN LET k == CHOOSE i \in 1..Len(s) :
                      s[i] = c /\ \A j \in 1..(i - 1) : s[j] # c
         IN [s EXCEPT ![k] = d]
    ELSE s

KeepNumeric(c) == IsDigit(c) \/ c = "." \/ c = "-"
KeepNumericOrComma(c) == KeepNumeric(c) \/ c = ","

\* a strip whose pattern lets the comma through
StripNonNumericKeepsComma(s) == SelectSeq(s, KeepNumericOrComma)

\* s.replace(/[^0-9.-]/g, '')
StripNonNumeric(s) == SelectSeq(s, KeepNumeric)

-----------------------------------------------------------------------------
(* parseFloat on a string *)

RECURSIVE DigitRun(_)
\* the longest prefix of s made of digits
DigitRun(s) ==
    IF s # <<>> /\ IsDigit(Head(s))
    THEN <<Head(s)>> \o DigitRun(Tail(s))
    ELSE <<>>

RECURSIVE DigitsValue(_)
DigitsValue(d) ==
    IF d = <<>> THEN 0
    ELSE 10 * DigitsValue(SubSeq(d, 1, Len(d) - 1)) + DigitVal(d[Len(d)])

RECURSIVE StripTrailingZeros(_)
StripTrailingZeros(f) ==
    IF f # <<>> /\ f[Len(f)] = 0
    THEN StripTrailingZeros(SubSeq(f, 1, Len(f) - 1))
    ELSE f

DropFirst(s, n) == SubSeq(s, n + 1, Len(s))

\* Number(str) in place of parseFloat(str): the empty string is 0
ParseFloatAsNumber(str) ==
    IF Trim(str) = <<>> THEN Num(FALSE, 0, <<>>)
    ELSE IF \A i \in 1..Len(str) : IsDigit(str[i])
         THEN Num(FALSE, DigitsValue(str), <<>>)
         ELSE NaN

\* parseFloat(str): leading white space skipped, then the longest prefix
\* that is a decimal literal [+-] digits [. digits] | [+-] . digits;
\* NaN when there is none.  (No exponent or "Infinity" is modelled: the
\* callers strip every letter first.)
ParseFloat(str) ==
    LET s == TrimStart(str)
        signed == s # <<>> /\ Head(s) \in {"-", "+"}
        neg == s # <<>> /\ Head(s) = "-"
        body == IF signed THEN Tail(s) ELSE s
        ipDigits == DigitRun(body)
        rest == DropFirst(body, Len(ipDigits))
        hasDot == rest # <<>> /\ Head(rest) = "."
        fracDigits == IF hasDot THEN DigitRun(Tail(rest)) ELSE <<>>
        frac == StripTrailingZeros([i \in 1..Len(fracDigits) |->
                                        DigitVal(fracDigits[i])])
    IN IF ipDigits = <<>> /\ fracDigits = <<>> THEN NaN
       ELSE Num(neg, DigitsValue(ipDigits), frac)

IsNaN(n) == n.kind = "nan"
\* isFinite(n): ParseFloat yields no infinity
IsFinite(n) == n.kind = "num"


-----------------------------------------------------------------------------
(* cleanAndParse *)

\* a test that looks for S or W at the end of the token only
IsNegativeSuffixOnly(s) ==
    \/ s # <<>> /\ s[Len(s)] \in {"S", "W"}
    \/ StartsWith(s, <<"-">>)

\* s.includes('S') || s.includes('W') || s.startsWith('-') on the trimmed,
\* uppercased string (part_000 lines 53 and 515)
IsNegative(s) ==
    \/ Includes(s, <<"S">>)
    \/ Includes(s, <<"W">>)
    \/ StartsWith(s, <<"-">>)

\* a replacement that does not count the commas
DecimalCommaAnyCount(s) ==
    IF Includes(s, <<",">>) /\ ~Includes(s, <<".">>)
    THEN ReplaceFirst(s, ",", ".")
    ELSE s

\* European decimal handling (part_000 lines 54-57 and 518-521)
DecimalComma(s) ==
    IF Includes(s, <<",">>) /\ ~Includes(s, <<".">>)
    THEN IF CountChar(s, ",") = 1 THEN ReplaceFirst(s, ",", ".") ELSE s
    ELSE s

\* an adjustment that leaves the parsed sign when isNegative is false
SignAdjustKeepsSign(isNegative, num) == IF isNegative THEN NegAbs(num) ELSE num

\* isNegative ? -Math.abs(num) : Math.abs(num) (part_000 lines 61 and 527)
SignAdjust(isNegative, num) == IF isNegative THEN NegAbs(num) ELSE Abs(num)

\* App.tsx revision 1 (part_000 lines 50-62)
cleanAndParse1(val) ==
    LET s == ToUpperCase(Trim(val))
        isNegative == IsNegative(s)
        cleaned == StripNonNumeric(DecimalComma(s))
        num == ParseFloat(cleaned)
    IN IF s = <<>> THEN Null
       ELSE IF IsNaN(num) THEN Null
       ELSE SignAdjust(isNegative, num)

\* App.tsx revision 2 (part_000 lines 509-528)
cleanAndParse2(val) ==
    LET s == ToUpperCase(Trim(val))
        isNegative == IsNegative(s)
        cleaned == StripNonNumeric(DecimalComma(s))
        num == ParseFloat(cleaned)
    IN IF val = <<>> THEN Null
       ELSE IF s = <<>> \/ s = <<"N","U","L","L">>
                        \/ s = <<"U","N","D","E","F","I","N","E","D">>
            THEN Null
       ELSE IF IsNaN(num) \/ ~IsFinite(num) THEN Null
       ELSE SignAdjust(isNegative, num)

cleanAndParse(v, val) == IF v = 1 THEN cleanAndParse1(val) ELSE cleanAndParse2(val)

-----------------------------------------------------------------------------
(* Cells and rows: a SheetRow maps header names to strings or numbers *)

\* row[col]: undefined when the row has no such key
\* a lookup that makes up a cell for a missing key
RowGetMissingIsOne(row, col) == IF col \in DOMAIN row THEN row[col] ELSE Str(<<"1">>)

\* row[col]: undefined for a key the row does not have
RowGet(row, col) == IF col \in DOMAIN row THEN row[col] ELSE Undefined

\* x || y picks y exactly when x is falsy
Falsy(x) ==
    \/ x.kind \in {"undefined", "null", "nan"}
    \/ x.kind = "str" /\ x.s = <<>>
    \/ x.kind = "num" /\ IsZero(x)

OrElse(x, y) == IF Falsy(x) THEN y ELSE x

RECURSIVE NatToString(_)
NatToString(n) ==
    IF n < 10 THEN <<DigitChars[n + 1]>>
    ELSE NatToString(n \div 10) \o <<DigitChars[(n % 10) + 1]>>

\* String(n) for a number in plain decimal notation (-0 prints as "0")
NumToString(n) ==
    (IF SignedNeg(n) THEN <<"-">> ELSE <<>>)
    \o NatToString(n.ip)
    \o (IF n.frac = <<>> THEN <<>>
        ELSE <<".">> \o [i \in 1..Len(n.frac) |-> DigitChars[n.frac[i] + 1]])

\* String(x)
StringOf(x) ==
    CASE x.kind = "str" -> x.s
      [] x.kind = "num" -> NumToString(x)
      [] x.kind = "nan" -> <<"N","a","N">>
      [] x.kind = "null" -> <<"n","u","l","l">>
      [] x.kind = "undefined" -> <<"u","n","d","e","f","i","n","e","d">>

-----------------------------------------------------------------------------
(* String.prototype.split with the two separators of processPoints *)

IsSep1(c) == c \in {",", ";"}
IsSep2(c) == c \in {",", ";"} \/ IsSpace(c)

RECURSIVE SplitEach(_)
\* s.split(/[,;]/): every separator character ends a part
SplitEach(s) ==
    IF \E i \in 1..Len(s) : IsSep1(s[i])
    THEN LET k == CHOOSE i \in 1..Len(s) :
                      IsSep1(s[i]) /\ \A j \in 1..(i - 1) : ~IsSep1(s[j])
         IN <<SubSeq(s, 1, k - 1)>> \o SplitEach(DropFirst(s, k))
    ELSE <<s>>

RECURSIVE DropSeps(_)
DropSeps(s) == IF s # <<>> /\ IsSep2(Head(s)) THEN DropSeps(Tail(s)) ELSE s

RECURSIVE SplitRuns(_)
\* s.split(/[,;\s]+/): every run of separator characters ends a part
SplitRuns(s) ==
    IF \E i \in 1..Len(s) : IsSep2(s[i])
    THEN LET k == CHOOSE i \in 1..Len(s) :
                      IsSep2(s[i]) /\ \A j \in 1..(i - 1) : ~IsSep2(s[j])
         IN <<SubSeq(s, 1, k - 1)>> \o SplitRuns(DropSeps(DropFirst(s, k)))
    ELSE <<s>>

\* p => p.trim() as a filter: keeps the parts that are not blank
NonBlank(p) == Trim(p) # <<>>

-----------------------------------------------------------------------------
(* Column names and mappings *)

\* a column name that is undefined: no string holds a two-letter element
UndefinedName == <<"undefined">>

\* a column name that is null, likewise
NullName == <<"null">>

\* !name for a value that is a string, undefined or null
NoName(name) == name = <<>> \/ name = UndefinedName \/ name = NullName

Mapping(lat, lng) == [latColumn |-> lat, lngColumn |-> lng]


-----------------------------------------------------------------------------
(* Inputs *)

\* Seq(S) up to length n
SeqsUpTo(S, n) == UNION {[1..k -> S] : k \in 0..n}

hLat == <<"L","a","t">>
hLng == <<"L","n","g">>
hGps == <<"G","P","S">>
hBogus == <<"N","o","n","e">>
hType == <<"T","y","p","e">>

\* header rows the sheet may have
HeaderLists == {<<hLat, hLng>>, <<hGps>>, <<hGps, hType>>}

\* those without a category column
PlainHeaderLists == {hs \in HeaderLists : hType \notin Range(hs)}

c358 == <<"3","5",".","8">>
c144W == <<"1","4",".","4"," ","W">>
c120 == <<"1","2","0">>
c0 == <<"0">>
cPair == <<"3","5",".","8",","," ","1","4",".","4">>

\* the cells of one sheet line, by column; fetchGoogleSheetData yields
\* strings only, '' for a missing value
SheetLines == {<<c358, c144W>>, <<c120, c358>>, <<c0, c0>>, <<cPair, <<>>>>}

\* lines of a sheet with a category column: a position and a category,
\* which may be missing
TypedLines == {<<cPair, <<>>>>, <<cPair, <<"A">>>>}

IndexOf(hs, h) == CHOOSE i \in DOMAIN hs : hs[i] = h

\* headers.forEach((header, index) => row[header] = values[index] || '')
RowOf(hs, line) ==
    [h \in Range(hs) |-> Str(line[IndexOf(hs, h)])]

\* what fetchGoogleSheetData may return
Datasets ==
    {[headers |-> hs, rows |-> [i \in DOMAIN ls |-> RowOf(hs, ls[i])]] :
        hs \in PlainHeaderLists, ls \in SeqsUpTo(SheetLines, MaxRows)}
    \cup {[headers |-> hs, rows |-> [i \in DOMAIN ls |-> RowOf(hs, ls[i])]] :
            hs \in HeaderLists \ PlainHeaderLists,
            ls \in SeqsUpTo(TypedLines, MaxRows)}

-----------------------------------------------------------------------------
(* processPoints *)

Ninety == Num(FALSE, 90, <<>>)
MinusNinety == Num(TRUE, 90, <<>>)
OneEighty == Num(FALSE, 180, <<>>)
MinusOneEighty == Num(TRUE, 180, <<>>)

\* a test without the (0,0) clause
PlottableKeepsNullIsland(lat, lng) ==
    /\ lat # Null
    /\ lng # Null
    /\ NumGE(lat, MinusNinety) /\ NumLE(lat, Ninety)
    /\ NumGE(lng, MinusOneEighty) /\ NumLE(lng, OneEighty)

\* the test of part_000 lines 83 and 556-562
Plottable(lat, lng) ==
    /\ lat # Null
    /\ lng # Null
    /\ NumGE(lat, MinusNinety) /\ NumLE(lat, Ninety)
    /\ NumGE(lng, MinusOneEighty) /\ NumLE(lng, OneEighty)
    /\ (~NumEq(lat, Zero) \/ ~NumEq(lng, Zero))

\* the pair <<lat, lng>> one row yields, revision 1 (part_000 lines 69-82)
rowLatLng1(row, m) ==
    IF m.latColumn = m.lngColumn
    THEN LET combined == StringOf(RowGet(row, m.latColumn))
             parts == SplitEach(combined)
         IN IF Len(parts) >= 2
            THEN <<cleanAndParse1(parts[1]), cleanAndParse1(parts[2])>>
            ELSE <<Null, Null>>
    ELSE <<cleanAndParse1(StringOf(RowGet(row, m.latColumn))),
           cleanAndParse1(StringOf(RowGet(row, m.lngColumn)))>>

\* the pair <<lat, lng>> one row yields, revision 2 (part_000 lines 536-553)
rowLatLng2(row, m) ==
    LET rawLat == StringOf(OrElse(RowGet(row, m.latColumn), Str(<<>>)))
        rawLng == StringOf(OrElse(RowGet(row, m.lngColumn), Str(<<>>)))
    IN IF m.latColumn = m.lngColumn
       THEN LET combined == rawLat
                parts == SelectSeq(SplitRuns(combined), NonBlank)
            IN IF Len(parts) >= 2
               THEN <<cleanAndParse2(parts[1]), cleanAndParse2(parts[2])>>
               ELSE <<Null, Null>>
       ELSE <<cleanAndParse2(rawLat), cleanAndParse2(rawLng)>>

rowLatLng(v, row, m) == IF v = 1 THEN rowLatLng1(row, m) ELSE rowLatLng2(row, m)

RECURSIVE pointsOfRowsNewestFirst(_, _, _)
\* a loop that puts each accepted row in front of the list
pointsOfRowsNewestFirst(v, rows, m) ==
    IF rows = <<>> THEN <<>>
    ELSE LET ll == rowLatLng(v, Head(rows), m)
         IN pointsOfRowsNewestFirst(v, Tail(rows), m)
            \o (IF Plottable(ll[1], ll[2])
                THEN <<[lat |-> ll[1], lng |-> ll[2], data |-> Head(rows)]>>
                ELSE <<>>)

RECURSIVE pointsOfRows(_, _, _)
\* rows.forEach(...): the accepted rows, in row order
pointsOfRows(v, rows, m) ==
    IF rows = <<>> THEN <<>>
    ELSE LET ll == rowLatLng(v, Head(rows), m)
         IN (IF Plottable(ll[1], ll[2])
             THEN <<[lat |-> ll[1], lng |-> ll[2], data |-> Head(rows)]>>
             ELSE <<>>)
            \o pointsOfRows(v, Tail(rows), m)

\* processPoints(rows, mapping) (part_000 lines 64-88 and 530-567)
processPoints(v, rows, m) ==
    IF m = Null \/ NoName(m.latColumn) \/ NoName(m.lngColumn) THEN <<>>
    ELSE pointsOfRows(v, rows, m)


-----------------------------------------------------------------------------
(* identifyColumns *)

\* a || b on names
NameOr(a, b) == IF NoName(a) THEN b ELSE a

\* hs[i], undefined past the end of the array
At(hs, i) == IF i \in DOMAIN hs THEN hs[i] ELSE UndefinedName

\* hs.find(h => pred(h)), hits being the names of hs that pass pred
FindFirst(hs, hits) ==
    IF \E i \in DOMAIN hs : hs[i] \in hits
    THEN hs[CHOOSE i \in DOMAIN hs :
                hs[i] \in hits /\ \A j \in 1..(i - 1) : hs[j] \notin hits]
    ELSE UndefinedName

sLatitudeN == <<"L","a","t","i","t","u","d","e"," ","N">>
sLongitudeE == <<"L","o","n","g","i","t","u","d","e"," ","E">>
sLatitude == <<"l","a","t","i","t","u","d","e">>
sLongitude == <<"l","o","n","g","i","t","u","d","e">>
sLat == <<"l","a","t">>
sLong == <<"l","o","n","g">>
sLng == <<"l","n","g">>
sCoordinates == <<"c","o","o","r","d","i","n","a","t","e","s">>

\* geminiService.ts lines 41-46: the catch branch of revision 1
heuristic1(hs) ==
    LET isLat == {h \in Range(hs) :
                    \/ Includes(ToLowerCase(h), sLat)
                    \/ Includes(ToLowerCase(h), <<"y">>)
                    \/ ToLowerCase(h) = sCoordinates}
        isLng == {h \in Range(hs) :
                    \/ Includes(ToLowerCase(h), sLng)
                    \/ Includes(ToLowerCase(h), sLong)
                    \/ Includes(ToLowerCase(h), <<"x">>)
                    \/ ToLowerCase(h) = sCoordinates}
    IN Mapping(NameOr(FindFirst(hs, isLat), At(hs, 1)),
               NameOr(FindFirst(hs, isLng), At(hs, 2)))

\* part_002 lines 58-70
heuristic2(hs) ==
    LET isLatN == {h \in Range(hs) : h = sLatitudeN}
        isLat == {h \in Range(hs) :
                    \/ Includes(ToLowerCase(h), sLatitude)
                    \/ ToLowerCase(h) = sLat}
        isLngE == {h \in Range(hs) : h = sLongitudeE}
        isLng == {h \in Range(hs) :
                    \/ Includes(ToLowerCase(h), sLongitude)
                    \/ ToLowerCase(h) = sLong
                    \/ ToLowerCase(h) = sLng}
    IN Mapping(NameOr(FindFirst(hs, isLatN),
                      NameOr(FindFirst(hs, isLat), At(hs, 1))),
               NameOr(FindFirst(hs, isLngE),
                      NameOr(FindFirst(hs, isLng),
                             NameOr(At(hs, 2), At(hs, 1)))))

\* geminiService.ts lines 118-127
heuristic3(hs) ==
    LET isLatN == {h \in Range(hs) : h = sLatitudeN}
        isLat == {h \in Range(hs) :
                    \/ Includes(ToLowerCase(h), sLatitude)
                    \/ ToLowerCase(h) = sLat}
        isLngE == {h \in Range(hs) : h = sLongitudeE}
        isLng == {h \in Range(hs) :
                    \/ Includes(ToLowerCase(h), sLongitude)
                    \/ Includes(ToLowerCase(h), sLong)
                    \/ Includes(ToLowerCase(h), sLng)}
    IN Mapping(NameOr(FindFirst(hs, isLatN),
                      NameOr(FindFirst(hs, isLat), At(hs, 1))),
               NameOr(FindFirst(hs, isLngE),
                      NameOr(FindFirst(hs, isLng),
                             NameOr(At(hs, 2), At(hs, 1)))))

heuristic(ov, hs) ==
    CASE ov = 1 -> heuristic1(hs)
      [] ov = 2 -> heuristic2(hs)
      [] ov = 3 -> heuristic3(hs)

(* What the oracle (ai.models.generateContent) does:                       *)
(*   [kind |-> "reject", message]  the request rejects (failure, timeout)   *)
(*   [kind |-> "notext"]           a response whose text is undefined       *)
(*   [kind |-> "malformed"]        a text JSON.parse throws on              *)
(*   [kind |-> "jsonnull"]         the text "null"                          *)
(*   [kind |-> "object", latColumn, lngColumn]  a JSON object; a missing    *)
(*                                 member is UndefinedName                  *)
Returned(m) == [threw |-> FALSE, value |-> m]
Threw(msg) == [threw |-> TRUE, message |-> msg]

\* result.latColumn && result.lngColumn && headers.includes(...) && ...
oracleAccepted(hs, resp) ==
    /\ ~NoName(resp.latColumn)
    /\ ~NoName(resp.lngColumn)
    /\ resp.latColumn \in Range(hs)
    /\ resp.lngColumn \in Range(hs)

\* geminiService.ts lines 7-48: the request is awaited outside the try,
\* and whatever JSON.parse returns is returned as the mapping
identifyColumns1(hs, resp) ==
    CASE resp.kind = "reject" -> Threw(resp.message)
      [] resp.kind = "object" -> Returned(Mapping(resp.latColumn, resp.lngColumn))
      [] resp.kind = "jsonnull" -> Returned(Null)
      [] resp.kind \in {"notext", "malformed"} -> Returned(heuristic1(hs))

\* part_002 lines 7-71 (ov = 2) and geminiService.ts lines 68-128 (ov = 3):
\* request and parse are inside the try; JSON.parse(response.text || '{}')
identifyColumns23(ov, hs, resp) ==
    IF resp.kind = "object" /\ oracleAccepted(hs, resp)
    THEN Returned(Mapping(resp.latColumn, resp.lngColumn))
    ELSE Returned(heuristic(ov, hs))

identifyColumns(ov, hs, resp) ==
    IF ov = 1 THEN identifyColumns1(hs, resp) ELSE identifyColumns23(ov, hs, resp)


-----------------------------------------------------------------------------
(* Outcomes of the row source and of the oracle *)

\* the two errors fetchGoogleSheetData throws (part_001 lines 16 and 21)
RowSourceErrors == {"Failed to fetch Google Sheet.", "Sheet appears to be empty."}

\* errors of the oracle request; the first is the one App revision 2 looks for
OracleErrors == {"Requested entity was not found.", "deadline exceeded"}

\* err.message?.includes("entity was not found")
EntityNotFound(msg) == msg = "Requested entity was not found."

OracleResponses(hs, names) ==
    {[kind |-> "reject", message |-> m] : m \in OracleErrors}
    \cup {[kind |-> k] : k \in {"notext", "malformed", "jsonnull"}}
    \cup {[kind |-> "object", latColumn |-> a, lngColumn |-> b] :
            a \in Range(hs) \cup names, b \in Range(hs) \cup names}

-----------------------------------------------------------------------------
(* The App *)

\* App revision 1 imports getSheetInsights, which only geminiService
\* revision 1 exports; App revision 2 runs with any of the three
Revisions == {<<1, 1>>, <<2, 1>>, <<2, 2>>, <<2, 3>>}

\* the results identifyColumns can give for these headers, over every
\* outcome of the oracle
identifyOutcomes ==
    [ov \in {1, 2, 3}, hs \in HeaderLists |->
        {identifyColumns(ov, hs, resp) : resp \in OracleResponses(hs, {hBogus})}]

\* the keywords of the filter column (part_000 line 102; line 582 adds
\* 'model')
FilterKeywords(v) ==
    {<<"t","y","p","e">>,
     <<"i","n","s","t","a","l","l","a","t","i","o","n"," ","t","y","p","e">>,
     <<"c","a","t","e","g","o","r","y">>, <<"s","t","a","t","u","s">>,
     <<"i","n","s","t","a","l","l","a","t","i","o","n">>}
    \cup (IF v = 2 THEN {<<"m","o","d","e","l">>} ELSE {})

\* headers.find(h => keywords.some(k => h.toLowerCase().includes(k))) || null
\* (part_000 lines 101-103, 581-583)
possibleFilterCol(v, hs) ==
    LET hits == {h \in Range(hs) :
                    \E k \in FilterKeywords(v) : Includes(ToLowerCase(h), k)}
        found == FindFirst(hs, hits)
    IN IF NoName(found) THEN NullName ELSE found

\* the characters of the cells, by increasing UTF-16 code unit
CodeOrder ==
    <<" ", ",", "-", ".">> \o DigitChars \o <<";">> \o UpperLetters \o LowerLetters

CodeOf(c) == CHOOSE i \in DOMAIN CodeOrder : CodeOrder[i] = c

\* a < b as Array.prototype.sort compares strings: by code unit, a proper
\* prefix first
StrLT(a, b) ==
    \E k \in 1..Len(b) :
        /\ \A j \in 1..(k - 1) : j <= Len(a) /\ a[j] = b[j]
        /\ k > Len(a) \/ CodeOf(a[k]) < CodeOf(b[k])

RECURSIVE SortStrings(_)
\* [...set].sort()
SortStrings(S) ==
    IF S = {} THEN <<>>
    ELSE LET least == CHOOSE x \in S : \A y \in S \ {x} : StrLT(x, y)
         IN <<least>> \o SortStrings(S \ {least})

sUnknown == <<"U","n","k","n","o","w","n">>

\* Array.from(new Set(rows.map(row => String(row[col] || 'Unknown'))))
\*   .filter(t => t.trim() !== '').sort()
\* (part_000 lines 108-110, 125-127, 589-591, 606-608)
typesOf(rows, col) ==
    LET all == {StringOf(OrElse(RowGet(rows[i], col), Str(sUnknown))) :
                    i \in DOMAIN rows}
    IN SortStrings({t \in all : Trim(t) # <<>>})

\* uniqueInstallationTypes (part_000 lines 123-130, 604-609)
uniqueInstallationTypes ==
    IF filterColumn = NullName \/ sheetData = <<>> THEN <<>>
    ELSE typesOf(sheetData, filterColumn)

\* filteredPoints (part_000 lines 132-135, 611-614)
filteredPoints ==
    IF filterColumn = NullName THEN points
    ELSE LET shown(p) ==
                 StringOf(RowGet(p.data, filterColumn)) \in Range(selectedFilters)
         IN SelectSeq(points, shown)

\* isAllSelected (part_000 lines 143 and 622)
isAllSelected ==
    /\ Len(uniqueInstallationTypes) > 0
    /\ Len(selectedFilters) = Len(uniqueInstallationTypes)

\* the state useState sets up (part_000 lines 23-31, 448-463); the
\* effects of the first render are due
AppStart(revs) ==
    /\ \E rev \in revs : appVariant = rev[1] /\ oracleVariant = rev[2]
    /\ isLoading = FALSE
    /\ error = Null
    /\ sheetData = <<>>
    /\ headers = <<>>
    /\ mapping = Null
    /\ points = <<>>
    /\ hasApiKey = IF appVariant = 1 THEN "true" ELSE "null"
    /\ inflight = 0
    /\ loadEffect = TRUE
    /\ styleConfig = [activeColumn |-> NullName, rule |-> Null]
    /\ selectedPoint = Null
    /\ selectedFilters = <<>>
    /\ filterColumn = NullName

Idle == fnIn = Null /\ fnOut = Null /\ fnPc = "idle"

Init == AppStart(Revisions) /\ Idle

\* checkKey (part_000 lines 466-483): the mount effect of revision 2;
\* handleFetch depends on hasApiKey, so setting it makes the load effect due
CheckKey ==
    /\ appVariant = 2
    /\ ~loadEffect
    /\ hasApiKey = "null"
    /\ hasApiKey' \in {"true", "false"}
    /\ loadEffect' = TRUE
    /\ UNCHANGED <<appVariant, oracleVariant, isLoading, error, sheetData,
                   headers, mapping, points, inflight,
                   styleConfig, viewVars, fnIn, fnOut, fnPc>>

\* handleConnectAI (part_000 lines 485-495), offered on the key screen
\* and next to a displayed error
HandleConnectAI ==
    /\ appVariant = 2
    /\ ~loadEffect
    /\ hasApiKey = "false" \/ error # Null
    /\ hasApiKey' = "true"
    /\ loadEffect' = (hasApiKey # "true")
    /\ UNCHANGED <<appVariant, oracleVariant, isLoading, error, sheetData,
                   headers, mapping, points, inflight,
                   styleConfig, viewVars, fnIn, fnOut, fnPc>>

\* the load effect (part_000 lines 600-602) runs and finds no key
LoadEffectSkips ==
    /\ loadEffect
    /\ appVariant = 2
    /\ hasApiKey # "true"
    /\ loadEffect' = FALSE
    /\ UNCHANGED <<appVariant, oracleVariant, isLoading, error, sheetData,
                   headers, mapping, points, hasApiKey, inflight,
                   styleConfig, viewVars, fnIn, fnOut,
                   fnPc>>

\* the load effect (part_000 lines 120-122, 600-602) calls handleFetch,
\* which runs up to its first await (lines 90-96, 569-577)
HandleFetchStart ==
    /\ loadEffect
    /\ appVariant = 2 => hasApiKey = "true"
    /\ loadEffect' = FALSE
    /\ inflight' = inflight + 1
    /\ isLoading' = TRUE
    /\ error' = Null
    /\ points' = <<>>
    /\ sheetData' = <<>>
    /\ mapping' = Null
    /\ selectedPoint' = Null
    /\ selectedFilters' = <<>>
    /\ UNCHANGED <<appVariant, oracleVariant, headers, hasApiKey,
                   styleConfig, filterColumn, fnIn, fnOut, fnPc>>

\* a catch block that records the error and leaves isLoading as it is
HandleFetchCatchKeepsLoading(msg) ==
    /\ ~loadEffect
    /\ inflight > 0
    /\ inflight' = inflight - 1
    /\ error' = Message(msg)
    /\ hasApiKey' = IF appVariant = 2 /\ EntityNotFound(msg) THEN "false" ELSE hasApiKey
    /\ loadEffect' = (hasApiKey' # hasApiKey)
    /\ UNCHANGED <<appVariant, oracleVariant, isLoading, sheetData, headers,
                   mapping, points, styleConfig, viewVars, fnIn, fnOut, fnPc>>

\* the catch block (part_000 lines 115-117, 594-597)
HandleFetchCatch(msg) ==
    /\ ~loadEffect
    /\ inflight > 0
    /\ inflight' = inflight - 1
    /\ isLoading' = FALSE
    /\ error' = Message(msg)
    /\ hasApiKey' = IF appVariant = 2 /\ EntityNotFound(msg) THEN "false" ELSE hasApiKey
    /\ loadEffect' = (hasApiKey' # hasApiKey)
    /\ UNCHANGED <<appVariant, oracleVariant, sheetData, headers, mapping,
                   points, styleConfig, viewVars, fnIn, fnOut, fnPc>>

\* fetchGoogleSheetData throws
HandleFetchRowSourceFails ==
    \E msg \in RowSourceErrors : HandleFetchCatch(msg)

\* fetchGoogleSheetData returns and identifyColumns throws
HandleFetchIdentifyFails ==
    /\ inflight > 0
    /\ \E d \in Datasets :
        \E r \in identifyOutcomes[oracleVariant, d.headers] :
            r.threw /\ HandleFetchCatch(r.message)

\* a load that also styles the map by the filter column it finds
HandleFetchSucceedsStyled ==
    /\ ~loadEffect
    /\ inflight > 0
    /\ \E d \in Datasets :
        \E r \in identifyOutcomes[oracleVariant, d.headers] :
               /\ ~r.threw
               /\ inflight' = inflight - 1
               /\ isLoading' = FALSE
               /\ error' = Null
               /\ sheetData' = d.rows
               /\ headers' = d.headers
               /\ mapping' = r.value
               /\ points' = processPoints(appVariant, d.rows, r.value)
               /\ filterColumn' = possibleFilterCol(appVariant, d.headers)
               /\ selectedFilters' =
                     IF filterColumn' # NullName THEN typesOf(d.rows, filterColumn')
                     ELSE selectedFilters
               /\ styleConfig' =
                     IF filterColumn' # NullName
                     THEN [activeColumn |-> filterColumn',
                           rule |-> [column |-> filterColumn',
                                     type |-> "categorical",
                                     colorMap |-> <<>>]]
                     ELSE styleConfig
               /\ UNCHANGED <<appVariant, oracleVariant, hasApiKey, loadEffect,
                              selectedPoint, fnIn, fnOut, fnPc>>

\* both awaits return (part_000 lines 96-111, 577-593)
HandleFetchSucceeds ==
    /\ ~loadEffect
    /\ inflight > 0
    /\ \E d \in Datasets :
        \E r \in identifyOutcomes[oracleVariant, d.headers] :
               /\ ~r.threw
               /\ inflight' = inflight - 1
               /\ isLoading' = FALSE
               /\ error' = Null
               /\ sheetData' = d.rows
               /\ headers' = d.headers
               /\ mapping' = r.value
               /\ points' = processPoints(appVariant, d.rows, r.value)
               /\ filterColumn' = possibleFilterCol(appVariant, d.headers)
               /\ selectedFilters' =
                     IF filterColumn' # NullName THEN typesOf(d.rows, filterColumn')
                     ELSE selectedFilters
               /\ UNCHANGED <<appVariant, oracleVariant, hasApiKey, loadEffect,
                              styleConfig, selectedPoint, fnIn, fnOut, fnPc>>

\* a default that names two columns
MappingOrLatLng(m) == IF m # Null THEN m ELSE Mapping(hLat, hLng)

\* prev.mapping ? { ...prev.mapping } : { latColumn: '', lngColumn: '' }
\* (part_000 lines 169 and 644)
MappingOrEmpty(m) == IF m # Null THEN m ELSE Mapping(<<>>, <<>>)

\* updateMapping(type, column) (part_000 lines 167-174, 642-649); column is
\* an option of the select, one of state.headers
UpdateMapping ==
    /\ ~loadEffect
    /\ \E type \in {"lat", "lng"} :
        \E column \in Range(headers) :
            LET prevMapping == MappingOrEmpty(mapping)
                newMapping == IF type = "lat"
                              THEN [prevMapping EXCEPT !.latColumn = column]
                              ELSE [prevMapping EXCEPT !.lngColumn = column]
            IN /\ mapping' = newMapping
               /\ points' = processPoints(appVariant, sheetData, newMapping)
               /\ UNCHANGED <<appVariant, oracleVariant, isLoading, error, sheetData,
                              headers, hasApiKey, inflight, loadEffect,
                              styleConfig, viewVars, fnIn, fnOut, fnPc>>

\* a swap that exchanges the columns and keeps the old points
SwapMappingStale ==
    /\ ~loadEffect
    /\ mapping # Null
    /\ mapping' = Mapping(mapping.lngColumn, mapping.latColumn)
    /\ UNCHANGED <<appVariant, oracleVariant, isLoading, error, sheetData,
                   headers, points, hasApiKey, inflight, loadEffect,
                   styleConfig, viewVars, fnIn, fnOut, fnPc>>

\* an exchange that overwrites latColumn before it is read
swapMappingNoTemp(v, prev) ==
    IF prev.mapping = Null THEN prev
    ELSE LET newMapping == Mapping(prev.mapping.lngColumn, prev.mapping.lngColumn)
         IN [prev EXCEPT !.mapping = newMapping,
                         !.points = processPoints(v, prev.sheetData, newMapping)]

\* the updater swapMapping hands to setState (part_000 lines 177-181,
\* 652-656), on the fields of prev it reads and writes; with no mapping
\* prev is returned as it is
swapMapping(v, prev) ==
    IF prev.mapping = Null THEN prev
    ELSE LET newMapping == Mapping(prev.mapping.lngColumn, prev.mapping.latColumn)
         IN [prev EXCEPT !.mapping = newMapping,
                         !.points = processPoints(v, prev.sheetData, newMapping)]

\* the fields of the state that swapMapping reads and writes
MappedState == [sheetData |-> sheetData, mapping |-> mapping, points |-> points]

\* swapMapping (part_000 lines 176-182, 651-657)
SwapMapping ==
    /\ ~loadEffect
    /\ LET next == swapMapping(appVariant, MappedState)
       IN mapping' = next.mapping /\ points' = next.points
    /\ UNCHANGED <<appVariant, oracleVariant, isLoading, error, sheetData,
                   headers, hasApiKey, inflight, loadEffect,
                   styleConfig, viewVars, fnIn, fnOut, fnPc>>

\* PALETTE (part_000 lines 8-11, 433-436)
PALETTE ==
    <<"#CC0000", "#000000", "#444444", "#777777", "#999999",
      "#BB0000", "#222222", "#660000", "#333333", "#AA0000">>

\* a lookup that stays on the last colour past the end of the palette
PaletteColorClamped(idx) ==
    PALETTE[(IF idx < Len(PALETTE) THEN idx ELSE Len(PALETTE) - 1) + 1]

\* PALETTE[idx % PALETTE.length], idx counted from 0
PaletteColor(idx) == PALETTE[(idx % Len(PALETTE)) + 1]

RECURSIVE UniqueValues(_)
\* Array.from(new Set(list)): the values in order of first appearance
UniqueValues(list) ==
    IF list = <<>> THEN <<>>
    ELSE LET front == UniqueValues(SubSeq(list, 1, Len(list) - 1))
             last == list[Len(list)]
         IN IF last \in Range(front) THEN front ELSE Append(front, last)

\* the colorMap handleApplyStyle builds (part_000 lines 158-162, 633-637)
ColorMapOf(rows, columnName) ==
    LET uniqueValues ==
            UniqueValues([i \in DOMAIN rows |-> StringOf(RowGet(rows[i], columnName))])
    IN [val \in Range(uniqueValues) |->
            PaletteColor(IndexOf(uniqueValues, val) - 1)]

\* a handler that leaves the active rule in place when the column is ''
ApplyStyleKeepsRule(columnName) ==
    /\ styleConfig' =
          IF columnName = <<>>
          THEN [styleConfig EXCEPT !.activeColumn = NullName]
          ELSE [activeColumn |-> columnName,
                rule |-> [column |-> columnName, type |-> "categorical",
                          colorMap |-> ColorMapOf(sheetData, columnName)]]
    /\ UNCHANGED <<appVariant, oracleVariant, isLoading, error, sheetData,
                   headers, mapping, points, hasApiKey, inflight, loadEffect,
                   viewVars>>

\* a handler that adds the new colours to the colorMap it finds
ApplyStyleAdditive(columnName) ==
    /\ styleConfig' =
          IF columnName = <<>>
          THEN [activeColumn |-> NullName, rule |-> Null]
          ELSE LET new == ColorMapOf(sheetData, columnName)
                   old == IF styleConfig.rule = Null THEN new
                          ELSE styleConfig.rule.colorMap
               IN [activeColumn |-> columnName,
                   rule |-> [column |-> columnName, type |-> "categorical",
                             colorMap |->
                               [val \in DOMAIN new \cup DOMAIN old |->
                                  IF val \in DOMAIN old THEN old[val]
                                  ELSE new[val]]]]
    /\ UNCHANGED <<appVariant, oracleVariant, isLoading, error, sheetData,
                   headers, mapping, points, hasApiKey, inflight, loadEffect,
                   viewVars>>

\* the body of handleApplyStyle(columnName) (part_000 lines 153-165,
\* 628-640)
ApplyStyle(columnName) ==
    /\ styleConfig' =
          IF columnName = <<>>
          THEN [activeColumn |-> NullName, rule |-> Null]
          ELSE [activeColumn |-> columnName,
                rule |-> [column |-> columnName, type |-> "categorical",
                          colorMap |-> ColorMapOf(sheetData, columnName)]]
    /\ UNCHANGED <<appVariant, oracleVariant, isLoading, error, sheetData,
                   headers, mapping, points, hasApiKey, inflight, loadEffect,
                   viewVars>>

\* handleApplyStyle called by the style select (part_000 lines 372 and
\* 865-871); columnName is an option of the select: '' or one of
\* state.headers
HandleApplyStyle ==
    /\ ~loadEffect
    /\ \E columnName \in {<<>>} \cup Range(headers) : ApplyStyle(columnName)
    /\ UNCHANGED <<fnIn, fnOut, fnPc>>

\* a toggle that also drops the points it hides from state.points
HandleToggleFilterDropsPoints ==
    /\ ~loadEffect
    /\ \E type \in Range(uniqueInstallationTypes) :
          selectedFilters' =
            IF type \in Range(selectedFilters)
            THEN SelectSeq(selectedFilters, LAMBDA t : t # type)
            ELSE Append(selectedFilters, type)
    /\ points' = SelectSeq(points,
                     LAMBDA p : StringOf(RowGet(p.data, filterColumn))
                                  \in Range(selectedFilters'))
    /\ UNCHANGED <<appVariant, oracleVariant, isLoading, error, sheetData,
                   headers, mapping, hasApiKey, inflight, loadEffect,
                   styleConfig, selectedPoint, filterColumn, fnIn, fnOut, fnPc>>

\* handleToggleFilter(type) (part_000 lines 137-141, 616-620); type is
\* one of the buttons, which show uniqueInstallationTypes
HandleToggleFilter ==
    /\ ~loadEffect
    /\ \E type \in Range(uniqueInstallationTypes) :
          selectedFilters' =
            IF type \in Range(selectedFilters)
            THEN SelectSeq(selectedFilters, LAMBDA t : t # type)
            ELSE Append(selectedFilters, type)
    /\ UNCHANGED <<appVariant, oracleVariant, isLoading, error, sheetData,
                   headers, mapping, points, hasApiKey, inflight, loadEffect,
                   styleConfig, selectedPoint, filterColumn, fnIn, fnOut, fnPc>>

\* handleToggleAll (part_000 lines 145-151, 624-626)
HandleToggleAll ==
    /\ ~loadEffect
    /\ selectedFilters' = IF isAllSelected THEN <<>> ELSE uniqueInstallationTypes
    /\ UNCHANGED <<appVariant, oracleVariant, isLoading, error, sheetData,
                   headers, mapping, points, hasApiKey, inflight, loadEffect,
                   styleConfig, selectedPoint, filterColumn, fnIn, fnOut, fnPc>>

\* onMarkerClick={setSelectedPoint} (part_000 lines 299, 796, 1069): a
\* marker of the map is clicked; the map shows filteredPoints
OnMarkerClick ==
    /\ ~loadEffect
    /\ \E i \in DOMAIN filteredPoints : selectedPoint' = filteredPoints[i]
    /\ UNCHANGED <<appVariant, oracleVariant, isLoading, error, sheetData,
                   headers, mapping, points, hasApiKey, inflight, loadEffect,
                   styleConfig, selectedFilters, filterColumn, fnIn, fnOut, fnPc>>

\* the close button of the detail card: setSelectedPoint(null)
\* (part_000 lines 310 and 810)
ClosePoint ==
    /\ ~loadEffect
    /\ selectedPoint # Null
    /\ selectedPoint' = Null
    /\ UNCHANGED <<appVariant, oracleVariant, isLoading, error, sheetData,
                   headers, mapping, points, hasApiKey, inflight, loadEffect,
                   styleConfig, selectedFilters, filterColumn, fnIn, fnOut, fnPc>>

Next ==
    \/ CheckKey
    \/ HandleConnectAI
    \/ LoadEffectSkips
    \/ HandleFetchStart
    \/ HandleFetchRowSourceFails
    \/ HandleFetchIdentifyFails
    \/ HandleFetchSucceeds
    \/ UpdateMapping
    \/ SwapMapping
    \/ HandleApplyStyle
    \/ HandleToggleFilter
    \/ HandleToggleAll

Spec == Init /\ [][Next]_vars

\* an await of handleFetch ends: the row source and the oracle each return
\* or fail
HandleFetchSettles ==
    \/ HandleFetchRowSourceFails
    \/ HandleFetchIdentifyFails
    \/ HandleFetchSucceeds

\* what the effect and the awaits change at every step of theirs
schedVars == <<inflight, loadEffect>>

\* the App with its scheduling: an effect that is due runs (part_000 lines
\* 120-122, 600-602), and a pending await settles; nothing makes the user
\* act
SpecFair ==
    /\ Init
    /\ [][Next]_vars
    /\ WF_schedVars(LoadEffectSkips)
    /\ WF_schedVars(HandleFetchStart)
    /\ WF_schedVars(HandleFetchSettles)


-----------------------------------------------------------------------------
(* cleanAndParse on its own: every token up to MaxLen over TokenChars,     *)
(* and the tokens of the specification's examples                          *)

TokenChars == {"0", "1", ".", ",", "-", "S", "w", " "}

tEuro == <<"4","8",",","8","5">>
tCommas == <<"1","4",",","4",",","2">>
tSouth == <<"3","5",".","8","9","5","2"," ","S">>
tWest == <<"1","4",".","4"," ","W">>
tMinusN == <<"-","1","2",".","5"," ","N">>
tInnerMinus == <<"N","-","5">>
tNull == <<"n","u","l","l">>
tNULL == <<"N","U","L","L">>
tUndefined == <<"u","n","d","e","f","i","n","e","d">>
tUNDEFINED == <<"U","N","D","E","F","I","N","E","D">>
tAbc == <<"a","b","c">>

ExampleTokens ==
    {tEuro, tCommas, tSouth, tWest, tMinusN, tInnerMinus, tNull, tNULL,
     tUndefined, tUNDEFINED, tAbc}

Tokens == SeqsUpTo(TokenChars, MaxLen) \cup ExampleTokens

InitParse ==
    /\ AppStart({<<1, 1>>, <<2, 3>>})
    /\ fnIn \in Tokens
    /\ fnOut = Null
    /\ fnPc = "ready"

CleanAndParseCall ==
    /\ fnPc = "ready"
    /\ fnOut' = cleanAndParse(appVariant, fnIn)
    /\ fnPc' = "done"
    /\ UNCHANGED <<appVariant, oracleVariant, isLoading, error, sheetData,
                   headers, mapping, points, hasApiKey, inflight,
                   loadEffect, styleConfig, viewVars, fnIn>>

NextParse == CleanAndParseCall

SpecParse == InitParse /\ [][NextParse]_vars

-----------------------------------------------------------------------------
(* processPoints on its own: rows with string and numeric cells            *)

n144 == Num(FALSE, 14, <<4>>)
n358 == Num(FALSE, 35, <<8>>)

cComma == <<"3","5",".","8",",","1","4",".","4">>
cSpace == <<"3","5",".","8"," ","1","4",".","4">>
cSemi == <<"3","5",".","8",";"," ","1","4",".","4">>

RowLatLngOf(a, b) == [h \in {hLat, hLng} |-> IF h = hLat THEN a ELSE b]

PointRows ==
    {RowLatLngOf(Str(c358), Str(c144W)), RowLatLngOf(Str(c120), Str(c358)),
     RowLatLngOf(Str(c0), Str(c0)), RowLatLngOf(Str(cPair), Str(<<>>)),
     RowLatLngOf(Zero, n144), RowLatLngOf(n358, Zero),
     RowLatLngOf(Str(cComma), Str(<<>>)), RowLatLngOf(Str(cSpace), Str(<<>>)),
     RowLatLngOf(Str(cSemi), Str(<<>>))}

PointMappings ==
    {Null, Mapping(hLat, hLng), Mapping(hLng, hLat), Mapping(hLat, hLat),
     Mapping(hLat, <<>>), Mapping(hLat, hBogus), Mapping(hBogus, hBogus),
     Mapping(UndefinedName, hLng), Mapping(hBogus, hLng)}

InitPoints ==
    /\ AppStart({<<1, 1>>, <<2, 3>>})
    /\ fnIn \in [rows : SeqsUpTo(PointRows, MaxRows), mapping : PointMappings]
    /\ fnOut = Null
    /\ fnPc = "ready"

ProcessPointsCall ==
    /\ fnPc = "ready"
    /\ fnOut' = processPoints(appVariant, fnIn.rows, fnIn.mapping)
    /\ fnPc' = "done"
    /\ UNCHANGED <<appVariant, oracleVariant, isLoading, error, sheetData,
                   headers, mapping, points, hasApiKey, inflight,
                   loadEffect, styleConfig, viewVars, fnIn>>

NextPoints == ProcessPointsCall

SpecPoints == InitPoints /\ [][NextPoints]_vars

-----------------------------------------------------------------------------
(* identifyColumns on its own *)

hSiteLatitude == <<"G","L","a","t","i","t","u","d","e">>
hGpsLong == <<"G","p","s","L","o","n","g">>
hId == <<"I","d">>

\* header names: the two sentinels, names the patterns match exactly or as
\* a substring, a name none matches, and the empty name of an empty cell
ColumnNames ==
    {sLatitudeN, sLongitudeE, hLat, hSiteLatitude, hLng, hGpsLong, hId, <<>>}

ColumnHeaderLists ==
    HeaderLists \cup {<<>>, <<sLatitudeN, sLongitudeE>>, <<hGps, sLat, sLng>>}
        \cup SeqsUpTo(ColumnNames, MaxHeaders)

InitColumns ==
    /\ AppStart({<<2, 1>>, <<2, 2>>, <<2, 3>>})
    /\ \E hs \in ColumnHeaderLists :
        \E resp \in OracleResponses(hs, {<<>>, hBogus, UndefinedName}) :
            fnIn = [headers |-> hs, resp |-> resp]
    /\ fnOut = Null
    /\ fnPc = "ready"

IdentifyColumnsCall ==
    /\ fnPc = "ready"
    /\ fnOut' = identifyColumns(oracleVariant, fnIn.headers, fnIn.resp)
    /\ fnPc' = "done"
    /\ UNCHANGED <<appVariant, oracleVariant, isLoading, error, sheetData,
                   headers, mapping, points, hasApiKey, inflight,
                   loadEffect, styleConfig, viewVars, fnIn>>

NextColumns == IdentifyColumnsCall

SpecColumns == InitColumns /\ [][NextColumns]_vars


-----------------------------------------------------------------------------
(* handleApplyStyle on loaded sheets, those with more distinct values than *)
(* the palette has colours among them                                      *)

\* a sheet of n lines whose first column holds n different values
LongRows(n) ==
    [i \in 1..n |-> RowOf(<<hLat, hLng>>, <<NatToString(i - 1), c0>>)]

\* the sheets with a category column, and the long ones
StyleDatasets ==
    {d \in Datasets : hType \in Range(d.headers)}
    \cup {[headers |-> <<hLat, hLng>>, rows |-> LongRows(n)] :
            n \in 0..MaxStyleRows}

\* the App after a successful load
InitStyle ==
    /\ \E rev \in Revisions : appVariant = rev[1] /\ oracleVariant = rev[2]
    /\ \E d \in StyleDatasets :
         \E r \in identifyOutcomes[oracleVariant, d.headers] :
            /\ ~r.threw
            /\ sheetData = d.rows
            /\ headers = d.headers
            /\ mapping = r.value
            /\ points = processPoints(appVariant, d.rows, r.value)
    /\ isLoading = FALSE
    /\ error = Null
    /\ hasApiKey = "true"
    /\ inflight = 0
    /\ loadEffect = FALSE
    /\ styleConfig = [activeColumn |-> NullName, rule |-> Null]
    /\ selectedPoint = Null
    /\ filterColumn = possibleFilterCol(appVariant, headers)
    /\ selectedFilters =
          IF filterColumn # NullName THEN typesOf(sheetData, filterColumn) ELSE <<>>
    /\ Idle

\* MapDisplay (part_000 lines 930-931)
DEFAULT_COLOR == "#CC0000"
SELECTED_COLOR == "#000000"

\* getMarkerColor(point) (part_000 lines 1014-1018)
getMarkerColor(point) ==
    IF styleConfig.rule = Null \/ NoName(styleConfig.activeColumn)
    THEN DEFAULT_COLOR
    ELSE LET value == StringOf(RowGet(point.data, styleConfig.activeColumn))
             colorMap == styleConfig.rule.colorMap
         IN IF value \in DOMAIN colorMap /\ colorMap[value] # ""
            THEN colorMap[value]
            ELSE DEFAULT_COLOR

\* isSelected (part_000 lines 1040-1043)
isSelected(point) ==
    /\ selectedPoint # Null
    /\ NumEq(selectedPoint.lat, point.lat)
    /\ NumEq(selectedPoint.lng, point.lng)
    /\ selectedPoint.data = point.data

\* a marker that takes the colour of its category when a rule is active
markerColorCategoryFirst(point) ==
    IF styleConfig.rule # Null THEN getMarkerColor(point)
    ELSE IF isSelected(point) THEN SELECTED_COLOR
    ELSE DEFAULT_COLOR

\* const color = isSelected ? SELECTED_COLOR : getMarkerColor(point)
\* (part_000 line 1045)
markerColor(point) ==
    IF isSelected(point) THEN SELECTED_COLOR ELSE getMarkerColor(point)

\* handleApplyStyle called by the style select, the call on record:
\* its argument and the styleConfig it found
ApplyStyleCall ==
    /\ ~loadEffect
    /\ \E columnName \in {<<>>} \cup Range(headers) :
          /\ ApplyStyle(columnName)
          /\ fnIn' = [columnName |-> columnName, styleConfig |-> styleConfig]
    /\ fnOut' = styleConfig'
    /\ fnPc' = "done"

NextStyle ==
    \/ ApplyStyleCall
    \/ OnMarkerClick
    \/ ClosePoint
    \/ SwapMapping

SpecStyle == InitStyle /\ [][NextStyle]_vars

-----------------------------------------------------------------------------
(* iconCreateFunction of the marker cluster group: the number a cluster    *)
(* shows, from the latentoValue of its markers.  The labels used here have *)
(* fractions that a double holds exactly (halves and quarters), so the     *)
(* sums of the code are the exact sums.                                    *)

RECURSIVE Pow10(_)
Pow10(k) == IF k = 0 THEN 1 ELSE 10 * Pow10(k - 1)

\* the number n as an integer count of 10^-k, k at least Len(n.frac)
Scaled(n, k) ==
    LET mag == n.ip * Pow10(k)
               + DigitsValue([i \in 1..k |-> DigitChars[FracDigit(n.frac, i) + 1]])
    IN IF n.neg THEN 0 - mag ELSE mag

\* the markers a cluster counts in: String(val).replace(/[^0-9.-]/g, '')
\* parses to a number (part_000 lines 981-989)
NumericLabels(labels) ==
    SelectSeq([i \in DOMAIN labels |-> ParseFloat(StripNonNumeric(labels[i]))],
              LAMBDA n : ~IsNaN(n))

\* the fraction digits that the sum needs
LabelScale(labels) ==
    LET nums == NumericLabels(labels)
    IN IF nums = <<>> THEN 0
       ELSE CHOOSE k \in 0..MaxLen :
              /\ \A i \in DOMAIN nums : Len(nums[i].frac) <= k
              /\ \E i \in DOMAIN nums : Len(nums[i].frac) = k

RECURSIVE SumScaled(_, _)
\* totalLatento += num over the markers, in units of 10^-k
SumScaled(nums, k) ==
    IF nums = <<>> THEN 0
    ELSE Scaled(Head(nums), k) + SumScaled(Tail(nums), k)

\* String(n) for an integer
IntToString(n) == IF n < 0 THEN <<"-">> \o NatToString(0 - n) ELSE NatToString(n)

\* x.toFixed(1) for x = total / 10^k: the nearest tenth, the half away
\* from zero
ToFixed1(total, k) ==
    LET mag == IF total < 0 THEN 0 - total ELSE total
        tenths == (2 * 10 * mag + Pow10(k)) \div (2 * Pow10(k))
    IN (IF total < 0 THEN <<"-">> ELSE <<>>)
       \o NatToString(tenths \div 10) \o <<".">> \o NatToString(tenths % 10)

\* a display that falls back to the count when the sum is 0
displayValueZeroAsCount(labels) ==
    LET k == LabelScale(labels)
        totalLatento == SumScaled(NumericLabels(labels), k)
    IN IF totalLatento # 0
       THEN IF totalLatento % Pow10(k) = 0
            THEN IntToString(totalLatento \div Pow10(k))
            ELSE ToFixed1(totalLatento, k)
       ELSE NatToString(Len(labels))

\* displayValue (part_000 lines 976-993); an empty latentoValue is passed
\* over, and so is one that stripping leaves without a number
displayValue(labels) ==
    LET k == LabelScale(labels)
        totalLatento == SumScaled(NumericLabels(labels), k)
        hasNumericValue == NumericLabels(labels) # <<>>
    IN IF hasNumericValue
       THEN IF totalLatento % Pow10(k) = 0
            THEN IntToString(totalLatento \div Pow10(k))
            ELSE ToFixed1(totalLatento, k)
       ELSE NatToString(Len(labels))

\* the latentoValue a marker may carry: String(point.data[latentoKey]),
\* or '' (part_000 lines 1048-1049)
LabelCells ==
    {<<>>, <<"a","b","c">>, <<"0">>, <<"2">>, <<"-","3">>, <<"0",".","5">>,
     <<"0",".","2","5">>, <<"1","2"," ","k","W">>}

\* the clusters: two markers or more
InitCluster ==
    /\ AppStart({<<2, 3>>})
    /\ fnIn \in {ls \in SeqsUpTo(LabelCells, MaxCluster) : Len(ls) >= 2}
    /\ fnOut = Null
    /\ fnPc = "ready"

IconCreateFunctionCall ==
    /\ fnPc = "ready"
    /\ fnOut' = displayValue(fnIn)
    /\ fnPc' = "done"
    /\ UNCHANGED <<appVariant, oracleVariant, isLoading, error, sheetData,
                   headers, mapping, points, hasApiKey, inflight,
                   loadEffect, styleConfig, viewVars, fnIn>>

NextCluster == IconCreateFunctionCall

SpecCluster == InitCluster /\ [][NextCluster]_vars

-----------------------------------------------------------------------------
(* Properties *)

Done == fnPc = "done"

\* the point lies in the valid ranges and is not (0,0)
ValidPoint(pt) ==
    /\ NumLE(MinusNinety, pt.lat) /\ NumLE(pt.lat, Ninety)
    /\ NumLE(MinusOneEighty, pt.lng) /\ NumLE(pt.lng, OneEighty)
    /\ ~(IsZero(pt.lat) /\ IsZero(pt.lng))

\* C1: in every reachable state of the App every Point of state.points has
\* -90 <= lat <= 90, -180 <= lng <= 180 and (lat, lng) # (0, 0).
C1_PointsValid == \A i \in DOMAIN points : ValidPoint(points[i])

\* C1, the other half: every Point processPoints returns, for any rows and
\* mapping, lies in the valid ranges and is not (0,0).
C1_ReturnedPointsValid ==
    Done => \A i \in DOMAIN fnOut : ValidPoint(fnOut[i])

\* C1 witness: a loaded sheet of which one row is plotted and another one,
\* the row of zeros among them, is dropped.
C1_Witness ==
    /\ points # <<>>
    /\ Len(points) < Len(sheetData)
    /\ \E i \in DOMAIN sheetData : sheetData[i] = RowOf(headers, <<c0, c0>>)

\* the normalized values the claim speaks of: each cell's text, normalized
\* on its own (the two first parts of the cell in combined mode)
NormalizedPair(v, row, m) ==
    LET textLat == StringOf(RowGet(row, m.latColumn))
        textLng == StringOf(RowGet(row, m.lngColumn))
        parts == IF v = 1 THEN SplitEach(textLat)
                 ELSE SelectSeq(SplitRuns(textLat), NonBlank)
    IN IF m.latColumn = m.lngColumn
       THEN IF Len(parts) >= 2
            THEN <<cleanAndParse(v, parts[1]), cleanAndParse(v, parts[2])>>
            ELSE <<Null, Null>>
       ELSE <<cleanAndParse(v, textLat), cleanAndParse(v, textLng)>>

RECURSIVE ExpectedPoints(_, _, _)
ExpectedPoints(v, rows, m) ==
    IF rows = <<>> THEN <<>>
    ELSE LET ll == NormalizedPair(v, Head(rows), m)
             ok == /\ ll[1] # Null /\ ll[2] # Null
                   /\ ValidPoint([lat |-> ll[1], lng |-> ll[2]])
         IN (IF ok THEN <<[lat |-> ll[1], lng |-> ll[2], data |-> Head(rows)]>>
             ELSE <<>>)
            \o ExpectedPoints(v, Tail(rows), m)

\* C2: for every row and every non-empty mapping processPoints emits a
\* Point for the row iff both normalized values are non-null, in range and
\* not (0,0), for string cells and numeric cells alike.
C2_EmitsIffValid ==
    (Done /\ fnIn.mapping # Null
          /\ ~NoName(fnIn.mapping.latColumn) /\ ~NoName(fnIn.mapping.lngColumn))
    => fnOut = ExpectedPoints(appVariant, fnIn.rows, fnIn.mapping)

\* C3: in every reachable state of the App state.points equals
\* processPoints(state.sheetData, state.mapping).
C3_PointsAreRebuilt == points = processPoints(appVariant, sheetData, mapping)

\* C3 witness: the axes of a loaded sheet are exchanged and the row that is
\* plottable only that way is plotted.
C3_Witness ==
    /\ mapping = Mapping(hLng, hLat)
    /\ sheetData = <<RowOf(<<hLat, hLng>>, <<c120, c358>>)>>
    /\ Len(points) = 1

\* C4: for every oracle response whose latColumn or lngColumn is missing,
\* empty or not a member of headers, identifyColumns returns the heuristic
\* mapping, not the oracle's.
C4_InvalidOracleDiscarded ==
    (Done /\ fnIn.resp.kind = "object" /\ ~oracleAccepted(fnIn.headers, fnIn.resp))
    => fnOut = Returned(heuristic(oracleVariant, fnIn.headers))

\* the oracle's answer is not taken: no object, or one that fails the test
NotAccepted ==
    fnIn.resp.kind # "object" \/ ~oracleAccepted(fnIn.headers, fnIn.resp)

\* C11: when the oracle is not accepted identifyColumns returns, without
\* throwing, a string for both axes: non-empty names when headers is
\* non-empty, the empty string for both when headers is empty.
C11_FallbackGivesStrings ==
    (Done /\ NotAccepted)
    => /\ ~fnOut.threw
       /\ fnOut.value # Null
       /\ fnOut.value.latColumn # UndefinedName
       /\ fnOut.value.lngColumn # UndefinedName
       /\ IF fnIn.headers = <<>>
          THEN fnOut.value = Mapping(<<>>, <<>>)
          ELSE fnOut.value.latColumn # <<>> /\ fnOut.value.lngColumn # <<>>

\* the names of hs whose lower-case form contains one of the patterns
Containing(hs, patterns) ==
    {h \in Range(hs) : \E q \in patterns : Includes(ToLowerCase(h), q)}

\* the latitude choice as the priority list states it
ExpectedLat(hs) ==
    IF sLatitudeN \in Range(hs) THEN sLatitudeN
    ELSE IF Containing(hs, {sLatitude}) # {}
         THEN FindFirst(hs, Containing(hs, {sLatitude}))
    ELSE IF \E h \in Range(hs) : ToLowerCase(h) = sLat
         THEN FindFirst(hs, {h \in Range(hs) : ToLowerCase(h) = sLat})
    ELSE hs[1]

\* C12: the heuristic latitude is the sentinel "Latitude N" if present,
\* else the first header containing "latitude", else a header exactly
\* "lat", else the first header, whatever the order of the headers.
C12_LatPriority ==
    (Done /\ oracleVariant \in {2, 3} /\ NotAccepted /\ fnIn.headers # <<>>)
    => /\ ~fnOut.threw
       /\ fnOut.value.latColumn = ExpectedLat(fnIn.headers)

\* the longitude choice as the priority list states it
ExpectedLng(hs) ==
    IF sLongitudeE \in Range(hs) THEN sLongitudeE
    ELSE IF Containing(hs, {sLongitude, sLong, sLng}) # {}
         THEN FindFirst(hs, Containing(hs, {sLongitude, sLong, sLng}))
    ELSE IF Len(hs) >= 2 THEN hs[2]
    ELSE hs[1]

\* C13: the heuristic longitude is the sentinel "Longitude E" if present,
\* else the first header containing "longitude", "long" or "lng", else
\* the second header if there is one, else the first.
C13_LngPriority ==
    (Done /\ oracleVariant \in {2, 3} /\ NotAccepted /\ fnIn.headers # <<>>)
    => /\ ~fnOut.threw
       /\ fnOut.value.lngColumn = ExpectedLng(fnIn.headers)

\* C14: in every reachable state of the App each of mapping.latColumn and
\* mapping.lngColumn is either empty or a member of state.headers.
C14_MappingNamesInHeaders ==
    mapping # Null
    => /\ mapping.latColumn = <<>> \/ mapping.latColumn \in Range(headers)
       /\ mapping.lngColumn = <<>> \/ mapping.lngColumn \in Range(headers)

\* the mapping is null or names no column on one axis
NoAxis(m) == m = Null \/ m.latColumn = <<>> \/ m.lngColumn = <<>>

\* C15: whenever state.mapping is null or has an empty axis name,
\* state.points is empty; and the step of updateMapping that sets one axis
\* of a null mapping leaves the other axis empty and state.points empty.
C15_NoAxisNoPoints ==
    /\ [](NoAxis(mapping) => points = <<>>)
    /\ [][(mapping = Null /\ mapping' # Null /\ ~isLoading)
            => (NoAxis(mapping') /\ points' = <<>>)]_vars

\* C15, for any rows: processPoints returns the empty sequence when the
\* mapping is null or has an empty axis name.
C15_ReturnsEmpty == (Done /\ NoAxis(fnIn.mapping)) => fnOut = <<>>

\* C15 witness: one axis has been chosen for a loaded sheet that had no
\* mapping, and nothing is plotted.
C15_Witness ==
    /\ sheetData # <<>>
    /\ mapping # Null
    /\ mapping.latColumn \in Range(headers)
    /\ mapping.lngColumn = <<>>
    /\ points = <<>>

\* the mapping names, on some axis, a header no row has as a key
MissingHeader(rows, m) ==
    /\ m # Null
    /\ \A i \in DOMAIN rows :
         m.latColumn \notin DOMAIN rows[i] \/ m.lngColumn \notin DOMAIN rows[i]

\* C16: when the mapping names a header that is not a key of the rows, on
\* either axis or on both in combined mode, processPoints returns the empty
\* Point list.
C16_MissingHeaderNoPoints ==
    (Done /\ MissingHeader(fnIn.rows, fnIn.mapping)) => fnOut = <<>>

\* C16 witness: a row with a plottable latitude and a longitude column the
\* row does not have has yielded no Point.
C16_Witness ==
    /\ Done
    /\ fnIn.mapping = Mapping(hLat, hBogus)
    /\ fnIn.rows = <<RowLatLngOf(Str(c358), Str(c144W))>>
    /\ fnOut = <<>>

\* the parts of a combined cell as the claim states them: split on every
\* run of commas, semicolons and white space, empty parts dropped
CombinedParts(text) == SelectSeq(SplitRuns(text), NonBlank)

RECURSIVE ExpectedCombined(_, _, _)
\* the Points of combined mode: parts 0 and 1 of each cell, normalized
ExpectedCombined(v, rows, col) ==
    IF rows = <<>> THEN <<>>
    ELSE LET parts == CombinedParts(StringOf(RowGet(Head(rows), col)))
             lat == IF Len(parts) >= 2 THEN cleanAndParse(v, parts[1]) ELSE Null
             lng == IF Len(parts) >= 2 THEN cleanAndParse(v, parts[2]) ELSE Null
             ok == /\ lat # Null /\ lng # Null
                   /\ ValidPoint([lat |-> lat, lng |-> lng])
         IN (IF ok THEN <<[lat |-> lat, lng |-> lng, data |-> Head(rows)]>>
             ELSE <<>>)
            \o ExpectedCombined(v, Tail(rows), col)

\* C17: in combined mode the cell is split on every run of commas,
\* semicolons and white space, empty parts are dropped, and parts 0 and 1
\* are normalized as latitude and longitude; "35.8,14.4", "35.8 14.4" and
\* "35.8; 14.4" each yield the one Point (35.8, 14.4), a cell with fewer
\* than two parts none.
C17_CombinedSplit ==
    (Done /\ fnIn.mapping # Null /\ ~NoName(fnIn.mapping.latColumn)
          /\ fnIn.mapping.latColumn = fnIn.mapping.lngColumn)
    => /\ fnOut = ExpectedCombined(appVariant, fnIn.rows, fnIn.mapping.latColumn)
       /\ \A c \in {cComma, cSpace, cSemi} :
             (fnIn.mapping.latColumn = hLat
                /\ fnIn.rows = <<RowLatLngOf(Str(c), Str(<<>>))>>)
             => fnOut = <<[lat |-> n358, lng |-> n144, data |-> fnIn.rows[1]]>>

\* row i of the input is accepted
AcceptedRow(i) ==
    LET ll == rowLatLng(appVariant, fnIn.rows[i], fnIn.mapping)
    IN Plottable(ll[1], ll[2])

\* C18: the Points come from the accepted rows in row order: there is a
\* strictly increasing map from the Points onto the accepted rows, each
\* Point's data being its row; rows with equal coordinates all contribute.
C18_OrderPreserved ==
    (Done /\ fnIn.mapping # Null
          /\ ~NoName(fnIn.mapping.latColumn) /\ ~NoName(fnIn.mapping.lngColumn))
    => \E f \in [DOMAIN fnOut -> DOMAIN fnIn.rows] :
          /\ \A j, k \in DOMAIN fnOut : j < k => f[j] < f[k]
          /\ \A k \in DOMAIN fnOut : fnOut[k].data = fnIn.rows[f[k]]
          /\ {f[k] : k \in DOMAIN fnOut}
                = {i \in DOMAIN fnIn.rows : AcceptedRow(i)}

\* C18 witness: two different rows with the same coordinates have each
\* given a Point.
C18_Witness ==
    /\ Done
    /\ Len(fnIn.rows) = 2
    /\ fnIn.rows[1] # fnIn.rows[2]
    /\ Len(fnOut) = 2
    /\ fnOut[1].lat = fnOut[2].lat /\ fnOut[1].lng = fnOut[2].lng

StyledValues == [i \in DOMAIN sheetData |->
                    StringOf(RowGet(sheetData[i], styleConfig.activeColumn))]

\* the row in which val appears first
FirstRow(val) ==
    CHOOSE i \in DOMAIN StyledValues :
        StyledValues[i] = val /\ \A j \in 1..(i - 1) : StyledValues[j] # val

\* how many distinct values appear before val does
Rank(val) ==
    Cardinality({w \in Range(StyledValues) : FirstRow(w) < FirstRow(val)})

\* C20: after handleApplyStyle with a non-empty column the keys of the
\* colorMap are exactly the distinct stringified values of the column in
\* the rows, and the i-th distinct value in order of first appearance
\* (from 0) has the colour PALETTE[i mod PALETTE.length].
C20_ColorsByFirstAppearance ==
    styleConfig.rule # Null
    => /\ styleConfig.rule.column = styleConfig.activeColumn
       /\ DOMAIN styleConfig.rule.colorMap = Range(StyledValues)
       /\ \A val \in Range(StyledValues) :
             styleConfig.rule.colorMap[val]
               = PALETTE[(Rank(val) % Len(PALETTE)) + 1]

\* C20 witness: a column with more distinct values than the palette has
\* colours is styled, and the eleventh value has the first colour again.
C20_Witness ==
    /\ styleConfig.rule # Null
    /\ Cardinality(DOMAIN styleConfig.rule.colorMap) > Len(PALETTE)
    /\ styleConfig.rule.colorMap[<<"1", "0">>] = "#CC0000"

\* C5: an oracle failure never sets state.error: state.error is non-null
\* only when the row source failed.
C5_OnlyRowSourceErrors == error # Null => error.text \in RowSourceErrors

HasSW(tok) ==
    Includes(ToUpperCase(tok), <<"S">>) \/ Includes(ToUpperCase(tok), <<"W">>)

LeadingMinus(tok) == StartsWith(Trim(tok), <<"-">>)

C7_DirectionLetterNegates ==
    (Done /\ HasSW(fnIn) /\ fnOut # Null)
    => /\ fnOut.neg
       /\ fnIn = tSouth => fnOut = Num(TRUE, 35, <<8, 9, 5, 2>>)
       /\ fnIn = tWest => fnOut = Num(TRUE, 14, <<4>>)

\* C7 witness: a lower-case w in front of the digits.
C7_Witness == Done /\ fnIn = <<"w", "1">> /\ fnOut = Num(TRUE, 1, <<>>)

NotComma(c) == c # ","

\* the magnitude of a result, null kept
Magnitude(x) == IF x = Null THEN Null ELSE Abs(x)

\* C8: the comma is the decimal separator exactly when the token has one
\* comma and no period ("48,85" gives 48.85): in that case the result is
\* that of the token with '.' for the comma, and in every other case the
\* magnitude is that of the token without its commas.
C8_DecimalComma ==
    Done =>
        /\ IF CountChar(fnIn, ",") = 1 /\ ~Includes(fnIn, <<".">>)
           THEN fnOut = cleanAndParse(appVariant, ReplaceFirst(fnIn, ",", "."))
           ELSE Magnitude(fnOut)
                    = Magnitude(cleanAndParse(appVariant, SelectSeq(fnIn, NotComma)))
        /\ fnIn = tEuro => fnOut = Num(FALSE, 48, <<8, 5>>)

\* C8 witness: a period next to a comma, the comma is stripped.
C8_Witness ==
    Done /\ fnIn = <<"1", ",", "1", ".">> /\ fnOut = Num(FALSE, 11, <<>>)

TwoCommasNoPeriod(tok) == CountChar(tok, ",") >= 2 /\ ~Includes(tok, <<".">>)

\* C9 as stated: a token with two or more commas and no period, such as
\* "14,4,2", normalizes to null.
C9_TwoCommasNull == (Done /\ TwoCommasNoPeriod(fnIn)) => fnOut = Null

DigitOrComma(c) == IsDigit(c) \/ c = ","

\* C9 amended: a token with two or more commas and no period has its commas
\* stripped and the digits that remain are read as one numeral: the result
\* has no fraction, digits and commas alone give the integer of the digits,
\* and "14,4,2" gives 1442.
C9_TwoCommasStripped ==
    (Done /\ TwoCommasNoPeriod(fnIn))
    => /\ fnOut # Null => fnOut.frac = <<>>
       /\ (SelectSeq(fnIn, DigitOrComma) = fnIn /\ SelectSeq(fnIn, IsDigit) # <<>>)
            => fnOut = Num(FALSE, DigitsValue(SelectSeq(fnIn, IsDigit)), <<>>)
       /\ fnIn = tCommas => fnOut = Num(FALSE, 1442, <<>>)

\* C9 witness: "14,4,2" has been normalized to 1442.
C9_Witness == Done /\ fnIn = tCommas /\ fnOut = Num(FALSE, 1442, <<>>)

\* C10: cleanAndParse returns null for the empty or blank token, for a
\* token equal to "null" or "undefined" in any case, and for every token
\* without a digit.
C10_NullForNoValue ==
    (Done /\ \/ Trim(fnIn) = <<>>
             \/ ToUpperCase(fnIn) \in {tNULL, tUNDEFINED}
             \/ SelectSeq(fnIn, IsDigit) = <<>>)
    => fnOut = Null

\* C10 witness: a token of letters alone has been normalized to null.
C10_Witness == Done /\ fnIn = tAbc /\ fnOut = Null


\* no rule and no active column
NoStyle(sc) == sc.rule = Null /\ sc.activeColumn = NullName

\* a step of the styled map that is neither a marker click, nor the close
\* button, nor a swap: a recorded handleApplyStyle call
StyleCallStep ==
    selectedPoint' = selectedPoint /\ mapping' = mapping /\ fnPc' = "done"

\* C21: handleApplyStyle called with an empty column clears styling:
\* afterwards styleConfig.activeColumn and styleConfig.rule are null,
\* whatever rule was active before, and the call changes no other field of
\* the state.
C21_EmptyColumnClears ==
    /\ [](Done /\ fnIn.columnName = <<>> => NoStyle(styleConfig))
    /\ [][StyleCallStep /\ fnIn'.columnName = <<>>
            => /\ NoStyle(styleConfig')
               /\ UNCHANGED <<isLoading, error, sheetData, headers, mapping,
                              points, hasApiKey, viewVars>>]_vars

\* C21 witness: a call with the empty column found a rule active and left
\* none.
C21_Witness ==
    /\ Done
    /\ fnIn.columnName = <<>>
    /\ fnIn.styleConfig.rule # Null
    /\ NoStyle(styleConfig)

\* the stringified values of column c, row by row
ColumnValues(c) ==
    [i \in DOMAIN sheetData |-> StringOf(RowGet(sheetData[i], c))]

\* how many distinct values of column c appear before val does
RankIn(c, val) ==
    LET vals == ColumnValues(c)
        first(w) == CHOOSE i \in DOMAIN vals :
                        vals[i] = w /\ \A j \in 1..(i - 1) : vals[j] # w
    IN Cardinality({w \in Range(vals) : first(w) < first(val)})

\* C22: the rule a handleApplyStyle call leaves depends only on the column
\* of that call and on the rows: whatever rule the call found, the keys of
\* the new colorMap are the values of the column in the rows, none carried
\* over, and each colour is the palette colour of the value's rank among
\* them, none carried over.
C22_RuleFromLastCallOnly ==
    Done /\ fnIn.columnName # <<>>
    => /\ styleConfig.rule # Null
       /\ styleConfig.activeColumn = fnIn.columnName
       /\ styleConfig.rule.column = fnIn.columnName
       /\ DOMAIN styleConfig.rule.colorMap = Range(ColumnValues(fnIn.columnName))
       /\ \A val \in DOMAIN styleConfig.rule.colorMap :
             styleConfig.rule.colorMap[val]
               = PALETTE[(RankIn(fnIn.columnName, val) % Len(PALETTE)) + 1]

\* C22 witness: a call with a column found a rule of another column active,
\* with a key that the new colorMap does not have.
C22_Witness ==
    /\ Done
    /\ fnIn.columnName # <<>>
    /\ fnIn.styleConfig.rule # Null
    /\ fnIn.styleConfig.rule.column # fnIn.columnName
    /\ \E val \in DOMAIN fnIn.styleConfig.rule.colorMap :
          val \notin DOMAIN styleConfig.rule.colorMap

RECURSIVE IsSubsequence(_, _)
\* a is b with some elements left out
IsSubsequence(a, b) ==
    IF a = <<>> THEN TRUE
    ELSE IF b = <<>> THEN FALSE
    ELSE IF Head(a) = Head(b) THEN IsSubsequence(Tail(a), Tail(b))
    ELSE IsSubsequence(a, Tail(b))

\* C23: a step that changes the filter selection outside a load
\* (handleToggleFilter, handleToggleAll) leaves state.points,
\* state.sheetData and state.mapping as they are; filteredPoints is always
\* an order-preserving subsequence of state.points, and is state.points
\* when there is no filter column.
C23_FilterIsAView ==
    /\ [](/\ IsSubsequence(filteredPoints, points)
          /\ filterColumn = NullName => filteredPoints = points)
    /\ [][selectedFilters' # selectedFilters /\ isLoading' = isLoading
            => UNCHANGED <<points, sheetData, mapping>>]_vars

\* C23 witness: one of two categories is switched off, and the view shows
\* one of the two points of the state.
C23_Witness ==
    /\ filterColumn # NullName
    /\ selectedFilters = <<<<"A">>>>
    /\ Len(points) = 2
    /\ Len(filteredPoints) = 1

\* the category of a plotted point under the active column
CategoryOf(p) == StringOf(RowGet(p.data, styleConfig.activeColumn))

\* C24: every plotted point is shown in the highlight colour #000000 when
\* it is the selected point, whatever rule is active; otherwise in the
\* colorMap entry of its value in the active column, or in the default
\* colour #CC0000 when no rule is active or the value has no entry.
C24_MarkerColor ==
    \A i \in DOMAIN filteredPoints :
        LET p == filteredPoints[i]
        IN markerColor(p) =
             IF selectedPoint # Null /\ p = selectedPoint THEN "#000000"
             ELSE IF styleConfig.rule = Null THEN "#CC0000"
             ELSE IF CategoryOf(p) \in DOMAIN styleConfig.rule.colorMap
                  THEN styleConfig.rule.colorMap[CategoryOf(p)]
                  ELSE "#CC0000"

\* C24 witness: with a rule active the selected point is shown in the
\* highlight colour though its category has another one, and a point that
\* is not selected is shown in the colour of its category.
C24_Witness ==
    /\ styleConfig.rule # Null
    /\ selectedPoint # Null
    /\ \E i, j \in DOMAIN filteredPoints :
          /\ filteredPoints[i] = selectedPoint
          /\ styleConfig.rule.colorMap[CategoryOf(selectedPoint)] = "#444444"
          /\ markerColor(filteredPoints[i]) = "#000000"
          /\ filteredPoints[j] # selectedPoint
          /\ markerColor(filteredPoints[j]) = "#777777"

\* the exact sum of the numeric labels as a decimal numeral: at scale k,
\* without trailing zeros
SumNumeral(labels) ==
    LET k == LabelScale(labels)
        total == SumScaled(NumericLabels(labels), k)
        mag == IF total < 0 THEN 0 - total ELSE total
        digits == [j \in 1..k |-> (mag \div Pow10(k - j)) % 10]
        frac == StripTrailingZeros(digits)
    IN (IF total < 0 THEN <<"-">> ELSE <<>>)
       \o NatToString(mag \div Pow10(k))
       \o (IF frac = <<>> THEN <<>>
           ELSE <<".">> \o [j \in 1..Len(frac) |-> DigitChars[frac[j] + 1]])

\* C25 as stated: a cluster shows the sum of the numeric labels of its
\* markers, and the count of its markers exactly when none of them has a
\* numeric label.
C25_ShowsExactSum ==
    Done => fnOut = IF NumericLabels(fnIn) # <<>> THEN SumNumeral(fnIn)
                    ELSE NatToString(Len(fnIn))

\* the numeral rounded to one decimal place, the half away from zero,
\* when it has a fraction
OneDecimal(numeral) ==
    LET neg == numeral # <<>> /\ Head(numeral) = "-"
        n == ParseFloat(numeral)
        mag == Scaled([n EXCEPT !.neg = FALSE], MaxLen)
        tenths == (mag + 5 * Pow10(MaxLen - 2)) \div Pow10(MaxLen - 1)
    IN IF n.frac = <<>> THEN numeral
       ELSE (IF neg THEN <<"-">> ELSE <<>>)
            \o NatToString(tenths \div 10) \o <<".">> \o NatToString(tenths % 10)

\* C25: a cluster shows the sum of the numeric labels of its markers, to one
\* decimal place when the sum is not a whole number, and the count of its
\* markers exactly when none of them has a numeric label; labels that sum
\* to 0 show 0, not the count.
C25_ShowsRoundedSum ==
    Done => fnOut = IF NumericLabels(fnIn) # <<>>
                    THEN OneDecimal(SumNumeral(fnIn))
                    ELSE NatToString(Len(fnIn))

\* C25 witness: three markers, two of them with a numeric label, whose
\* labels sum to 0: the cluster shows 0 and not 3.
C25_Witness ==
    /\ Done
    /\ Len(fnIn) = 3
    /\ Len(NumericLabels(fnIn)) = 2
    /\ fnOut = <<"0">>

\* what cleanAndParse hands to parseFloat: the trimmed, uppercased token,
\* a single comma turned into a period, every character other than digits,
\* '.' and '-' stripped
Remainder(tok) == StripNonNumeric(DecimalComma(ToUpperCase(Trim(tok))))

\* c is a decimal numeral as a whole: an optional '-', then digits with at
\* most one period among them
WholeNumeral(c) ==
    LET body == IF c # <<>> /\ Head(c) = "-" THEN Tail(c) ELSE c
    IN /\ \A i \in DOMAIN body : IsDigit(body[i]) \/ body[i] = "."
       /\ \E i \in DOMAIN body : IsDigit(body[i])
       /\ CountChar(body, ".") <= 1

\* C26: cleanAndParse returns null whenever the string left after the
\* strip is not a decimal numeral as a whole (two periods, a '-' after the
\* first digit): the remainder is parsed in full, not by its longest
\* numeric prefix.
C26_WholeRemainderParsed ==
    (Done /\ ~WholeNumeral(Remainder(fnIn))) => fnOut = Null

\* C27: swapMapping is an involution: with a mapping, two consecutive calls
\* restore mapping and points; one call on a mapping whose two columns are
\* the same changes neither; with no mapping a call changes nothing.
C27_SwapIsInvolution ==
    LET once == swapMapping(appVariant, MappedState)
        twice == swapMapping(appVariant, once)
    IN IF mapping = Null
       THEN once.mapping = Null /\ once.points = points
       ELSE /\ twice.mapping = mapping
            /\ twice.points = points
            /\ twice.sheetData = sheetData
            /\ mapping.latColumn = mapping.lngColumn
                 => once.mapping = mapping /\ once.points = points

\* C27 witness: the state after a swap of the columns Lng and Lat, with
\* points that a further swap takes away and a third one brings back.
C27_Witness ==
    /\ mapping # Null
    /\ mapping.latColumn = <<"L","n","g">>
    /\ mapping.lngColumn = <<"L","a","t">>
    /\ points # <<>>
    /\ swapMapping(appVariant, MappedState).points = <<>>

\* C28: after a successful load that found a filter column, while every
\* category is selected (as the load leaves it, or handleToggleAll),
\* filteredPoints holds every Point of state.points, those with an empty
\* cell in the filter column included.
C28_AllSelectedShowsAll ==
    (/\ ~isLoading
     /\ filterColumn # NullName
     /\ uniqueInstallationTypes # <<>>
     /\ Range(selectedFilters) = Range(uniqueInstallationTypes))
    => filteredPoints = points

\* the style is what it was
StyleKept ==
    /\ styleConfig'.rule = styleConfig.rule
    /\ styleConfig.rule # Null
         => styleConfig'.activeColumn = styleConfig.activeColumn

C30_LoadEnds ==
    /\ isLoading ~> ~isLoading
    /\ [](isLoading <=> inflight > 0)
    /\ []((appVariant = 2 /\ hasApiKey # "true") => ~isLoading)
    /\ [][/\ (~isLoading /\ isLoading')
               => /\ inflight' = inflight + 1
                  /\ appVariant = 2 => hasApiKey = "true"
          /\ (isLoading /\ ~isLoading')
               => /\ inflight' = inflight - 1
                  /\ \/ error' = Null /\ headers' \in HeaderLists
                     \/ error' # Null /\ sheetData' = <<>> /\ points' = <<>>]_vars

\* C30 witness: in revision 2, with the key in place, a load has started and
\* ended well: the sheet is there and isLoading is false.
C30_Witness ==
    /\ appVariant = 2
    /\ hasApiKey = "true"
    /\ ~isLoading
    /\ inflight = 0
    /\ error = Null
    /\ headers # <<>>

=============================================================================
